---- MODULE Spec2Model ----
(***************************************************************************)
(* Model of the Hindi typing platform: the layout catalog                  *)
(* (data/keyboardMappings.ts), the layout provider                         *)
(* (KeyboardLayoutContext), the keyboard mapper (useKeyboardMapper) and    *)
(* the typing engine (useTypingEngine).                                    *)
(*                                                                         *)
(* A JavaScript string is modelled as the sequence of its UTF-16 code      *)
(* units, each a number: U+0905 (A) is <<2309>>, the conjunct "dya"        *)
(* (U+0926 U+094D U+092F) is <<2342, 2381, 2351>>.                          *)
(* String length and indexing are therefore length and indexing in code    *)
(* units, as in the source.                                                *)
(*                                                                         *)
(* One keydown is one step: React flushes the state updates of a discrete  *)
(* event and re-registers the handler (the effect at useTypingEngine       *)
(* 163-165) before the next event is delivered, so the handler that runs   *)
(* always closes over the state of the latest render.  What does outlive a *)
(* render is the `finish` callback handed to setTimeout: it keeps the      *)
(* currentStats of the render that created it.                             *)
(*                                                                         *)
(* Specifications:                                                         *)
(*   Spec         the application: every update is followed at once by its *)
(*                render and by the re-registration of the key handler;    *)
(*                layouts are selected through the LayoutSelector buttons. *)
(*   RenderSpec   the same engine with the registration of the key handler *)
(*                as a step of its own after updates that do not come from *)
(*                a keydown or a click (timer ticks, timeouts), so that    *)
(*                key events interleave with it.                           *)
(*   RegistrySpec Spec with setLayout called by an arbitrary consumer,     *)
(*                possibly with an id outside the catalog.                 *)
(***************************************************************************)
EXTENDS Integers, Sequences, FiniteSets, TLC

\* ------------------------------------------------------------------ bounds
MaxResets == 1      \* reset() calls explored
MaxElapsed == 2     \* timer ticks explored per session

\* ------------------------------------------------------- layout catalog
KM(k, n, s, a, as) ==
    [key |-> k, normal |-> n, shift |-> s, altgr |-> a, altgrShift |-> as]

\* The rows keep the source's row order; of each row the keys the engine's
\* cases need are listed (a conjunct key, KeyE, a plain key, keys with
\* empty slots, a control key, modifier keys, Space).
REMINGTON_GAIL_LAYOUT ==
    [name      |-> "Remington GAIL",
     modifiers |-> [shift |-> <<"ShiftLeft", "ShiftRight">>,
                    altgr |-> <<"AltRight">>],
     rows      |-> <<
        << KM("Backquote", <<2364>>, <<2342, 2381, 2351>>, <<8204>>, <<8205>>) >>,
        << KM("KeyE", <<2350>>, <<2350, 2381>>, <<2375, 2306>>, <<2376, 2306>>),
           KM("BracketRight", <<44>>, <<2342, 2381, 2357>>,
                              <<2342, 2381, 2343>>, <<2342, 2381, 2348>>) >>,
        << KM("CapsLock", <<>>, <<>>, <<>>, <<>>),
           KM("Enter", <<>>, <<>>, <<>>, <<>>) >>,
        << KM("ShiftLeft", <<>>, <<>>, <<>>, <<>>),
           KM("KeyV", <<2309>>, <<2335>>, <<2335, 2381>>, <<2335, 2381, 2335>>) >>,
        << KM("ControlLeft", <<>>, <<>>, <<>>, <<>>),
           KM("Space", <<32>>, <<32>>, <<32>>, <<32>>),
           KM("AltRight", <<>>, <<>>, <<>>, <<>>) >>
     >>]

INSCRIPT_LAYOUT ==
    [name      |-> "INSCRIPT",
     modifiers |-> [shift |-> <<"ShiftLeft", "ShiftRight">>,
                    altgr |-> << >>],
     rows      |-> <<
        << KM("Backquote", <<2378>>, <<2322>>, <<>>, <<>>) >>,
        << KM("KeyE", <<2366>>, <<2310>>, <<>>, <<>>),
           KM("BracketRight", <<>>, <<2334>>, <<>>, <<>>) >>,
        << KM("CapsLock", <<>>, <<>>, <<>>, <<>>),
           KM("Enter", <<>>, <<>>, <<>>, <<>>) >>,
        << KM("ShiftLeft", <<>>, <<>>, <<>>, <<>>),
           KM("KeyV", <<2344>>, <<2345>>, <<>>, <<>>) >>,
        << KM("ControlLeft", <<>>, <<>>, <<>>, <<>>),
           KM("Space", <<32>>, <<32>>, <<>>, <<>>),
           KM("AltRight", <<>>, <<>>, <<>>, <<>>) >>
     >>]

LayoutIds == {"remington-gail", "inscript"}

AVAILABLE_LAYOUTS ==
    [id \in LayoutIds |->
        IF id = "remington-gail" THEN REMINGTON_GAIL_LAYOUT ELSE INSCRIPT_LAYOUT]

ModifierStates == {"normal", "shift", "altgr", "altgr-shift"}

\* Physical keys the host can deliver: every key of the catalog and one key
\* no layout maps.
RECURSIVE Flat(_)
Flat(rows) ==
    IF rows = << >> THEN << >> ELSE Head(rows) \o Flat(Tail(rows))

InputKeys ==
    {Flat(REMINGTON_GAIL_LAYOUT.rows)[i].key :
        i \in 1..Len(Flat(REMINGTON_GAIL_LAYOUT.rows))} \cup {"F1"}

\* ------------------------------------------------------- session inputs
\* Target texts: "", U+0905, U+0906, U+0905 U+0020, and U+0928 U+093C, whose
\* canonical form is the single U+0929.
Targets == { << >>, <<2309>>, <<2310>>, <<2309, 32>>, <<2344, 2364>> }
Modes == {"learn", "practice"}
\* duration?: number -- 0 stands for an absent duration.
Durations == {0, 1}

VARIABLES
    layoutId,       \* KeyboardLayoutProvider: useState<LayoutId>
    targetText,     \* useTypingEngine option
    mode,           \* useTypingEngine option
    duration,       \* useTypingEngine option
    currentIndex,   \* useState(0)
    typedText,      \* useState('')
    errors,         \* useState<number[]>([])
    isActive,       \* useState(false)
    timerRunning,   \* useTimer: the timer is counting
    timerElapsed,   \* useTimer: timer.elapsed
    timerFired,     \* useTimer: the duration callback has fired this session
    timeouts,       \* pending setTimeout(finish, 50) callbacks, oldest first
    emitted,        \* calls of onComplete since the last reset(), oldest first
    session,        \* number of reset() calls so far
    memoLayoutId,   \* the layout the useMemo'd keyMap was computed from
    handler         \* what the registered handleKeyPress closes over

vars == <<layoutId, targetText, mode, duration, currentIndex, typedText,
          errors, isActive, timerRunning, timerElapsed, timerFired,
          timeouts, emitted, session, memoLayoutId, handler>>

\* ------------------------------------------------- KeyboardLayoutProvider
currentLayout == AVAILABLE_LAYOUTS[layoutId]

\* new Map(currentLayout.rows.flat().map((k) => [k.key, k])): the mapping a
\* key id is bound to is the one of its last occurrence in the flattening.
MapOf(flat) ==
    [k \in {flat[i].key : i \in 1..Len(flat)} |->
        flat[CHOOSE i \in 1..Len(flat) :
                /\ flat[i].key = k
                /\ \A j \in 1..Len(flat) : flat[j].key = k => j <= i]]

\* The useMemo cache: one index per layout of the catalog.
KeyMapOf == [id \in LayoutIds |-> MapOf(Flat(AVAILABLE_LAYOUTS[id].rows))]

\* Map.prototype.values(): the keys in the order of their first insertion,
\* each with the value set last.
RECURSIVE MapValuesFrom(_, _)
MapValuesFrom(flat, i) ==
    IF i > Len(flat) THEN << >>
    ELSE (IF \E j \in 1..(i - 1) : flat[j].key = flat[i].key
          THEN << >>
          ELSE << MapOf(flat)[flat[i].key] >>) \o MapValuesFrom(flat, i + 1)

KeyMapValuesOf ==
    [id \in LayoutIds |-> MapValuesFrom(Flat(AVAILABLE_LAYOUTS[id].rows), 1)]

useMemo_NoDeps(memo, dep) == memo

\* useMemo(factory, [currentLayout]): the cached value is kept while the
\* dependency is the one it was computed from, and recomputed otherwise.
useMemo(memo, dep) == IF memo = dep THEN memo ELSE dep

keyMap_AlwaysRemington == KeyMapOf["remington-gail"]

keyMap == KeyMapOf[memoLayoutId]

\* keyMap.values()
keyMapValues == KeyMapValuesOf[memoLayoutId]

\* ----------------------------------------------------- useKeyboardMapper
getCharacterForKey_AltGrAsShift(key, modifierState) ==
    IF key \notin DOMAIN keyMap THEN << >>
    ELSE CASE modifierState = "shift"       -> keyMap[key].shift
           [] modifierState = "altgr"       -> keyMap[key].shift
           [] modifierState = "altgr-shift" -> keyMap[key].altgrShift
           [] OTHER                         -> keyMap[key].normal

getCharacterForKey(key, modifierState) ==
    IF key \notin DOMAIN keyMap THEN << >>
    ELSE CASE modifierState = "shift"       -> keyMap[key].shift
           [] modifierState = "altgr"       -> keyMap[key].altgr
           [] modifierState = "altgr-shift" -> keyMap[key].altgrShift
           [] OTHER                         -> keyMap[key].normal

isModifierKey(key) ==
    key \in {"ShiftLeft", "ShiftRight", "AltRight", "ControlLeft",
             "ControlRight", "AltLeft", "MetaLeft", "MetaRight"}

isTypeableKey_ControlKeysTypeable(key) ==
    IF isModifierKey(key) THEN FALSE
    ELSE key \in DOMAIN keyMap

isTypeableKey(key) ==
    IF isModifierKey(key) THEN FALSE
    ELSE IF key \in {"Backspace", "Enter", "Tab", "Escape"} THEN FALSE
    ELSE key \in DOMAIN keyMap

\* One element of the result of findKeysForCharacter.
Candidate(keyMapping, modifierState) ==
    [key |-> keyMapping.key, modifierState |-> modifierState,
     keyMapping |-> keyMapping]

MatchesOf_FirstSlotOnly(keyMapping, character) ==
    IF keyMapping.normal = character
    THEN << Candidate(keyMapping, "normal") >>
    ELSE IF keyMapping.shift = character
    THEN << Candidate(keyMapping, "shift") >>
    ELSE IF keyMapping.altgr = character
    THEN << Candidate(keyMapping, "altgr") >>
    ELSE IF keyMapping.altgrShift = character
    THEN << Candidate(keyMapping, "altgr-shift") >>
    ELSE << >>

\* The body of the loop of findKeysForCharacter: four independent tests,
\* each pushing one element.
MatchesOf(keyMapping, character) ==
    (IF keyMapping.normal = character
     THEN << Candidate(keyMapping, "normal") >> ELSE << >>)
    \o (IF keyMapping.shift = character
        THEN << Candidate(keyMapping, "shift") >> ELSE << >>)
    \o (IF keyMapping.altgr = character
        THEN << Candidate(keyMapping, "altgr") >> ELSE << >>)
    \o (IF keyMapping.altgrShift = character
        THEN << Candidate(keyMapping, "altgr-shift") >> ELSE << >>)

RECURSIVE findKeysIn(_, _)
findKeysIn(values, character) ==
    IF values = << >> THEN << >>
    ELSE MatchesOf(Head(values), character)
             \o findKeysIn(Tail(values), character)

findKeysForCharacter(character) == findKeysIn(keyMapValues, character)

\* Sets of keys held down when a key event arrives.
PressedKeySets == SUBSET {"ShiftLeft", "ShiftRight", "AltRight"}

\* getModifierState(pressedKeys): the three key codes are literals of the
\* function; the layout is not read.
getModifierState(pressedKeys) ==
    LET hasShift == "ShiftLeft" \in pressedKeys \/ "ShiftRight" \in pressedKeys
        hasAltGr == "AltRight" \in pressedKeys
    IN IF hasShift /\ hasAltGr THEN "altgr-shift"
       ELSE IF hasAltGr THEN "altgr"
       ELSE IF hasShift THEN "shift"
       ELSE "normal"

\* ------------------------------------------------------------ hindiUtils
\* Canonical composition of the pairs the modelled alphabet contains:
\* U+0928 U+093C composes to U+0929.
Composed(a, b) == IF a = 2344 /\ b = 2364 THEN 2345 ELSE 0

RECURSIVE normalizeHindiText(_)
normalizeHindiText(text) ==
    IF Len(text) < 2 THEN text
    ELSE IF Composed(text[1], text[2]) # 0
         THEN normalizeHindiText(<<Composed(text[1], text[2])>> \o Tail(Tail(text)))
         ELSE <<text[1]>> \o normalizeHindiText(Tail(text))

compareHindiChars(char1, char2) ==
    normalizeHindiText(char1) = normalizeHindiText(char2)

\* -------------------------------------------------------- statsCalculator
calculateDetailedStats(totalCharacters, correctCharacters, errorCount) ==
    [totalCharacters   |-> totalCharacters,
     correctCharacters |-> correctCharacters,
     errors            |-> errorCount,
     accuracy          |-> IF totalCharacters = 0 THEN 100
                           ELSE (correctCharacters * 100) \div totalCharacters]

\* -------------------------------------------------------- useTypingEngine
normalizedTarget == normalizeHindiText(targetText)

timerDuration == IF mode = "practice" THEN duration ELSE 0

isCompleted_Strict == currentIndex > Len(normalizedTarget)

isCompleted == currentIndex >= Len(normalizedTarget)

expectedAt_NextIndex(index) ==
    IF index + 1 < Len(normalizedTarget) THEN <<normalizedTarget[index + 2]>>
    ELSE << >>

\* normalizedTarget[index]: a one-code-unit string, or undefined (modelled as
\* the empty string) past the end.
expectedAt(index) ==
    IF index < Len(normalizedTarget) THEN <<normalizedTarget[index + 1]>>
    ELSE << >>

recordError_Next(errs, index, correct) ==
    IF correct THEN errs ELSE Append(errs, index + 1)

\* if (!correct) setErrors((e) => [...e, currentIndex])
recordError(errs, index, correct) ==
    IF correct THEN errs ELSE Append(errs, index)

nextIndex_ByLength(index, char) == index + Len(char)

\* const next = currentIndex + 1
nextIndex(index, char) == index + 1

\* App: const nextChar = targetText[currentIndex] -- one code unit of the
\* target as given, undefined (the empty string here) past its end.
nextChar ==
    IF currentIndex < Len(targetText) THEN <<targetText[currentIndex + 1]>>
    ELSE << >>

\* App: the candidates the next-key hint is chosen from.
nextKeyCandidates ==
    IF nextChar = << >> THEN << >> ELSE findKeysForCharacter(nextChar)

currentStats_TotalByKeystroke ==
    calculateDetailedStats(currentIndex, Len(typedText) - Len(errors),
                           Len(errors))

\* calculateDetailedStats(typedText.length, typedText.length - errors.length,
\* errors.length, timer.elapsed || 0.1); the lengths are in code units.
currentStats ==
    calculateDetailedStats(Len(typedText), Len(typedText) - Len(errors),
                           Len(errors))

\* What the handleKeyPress of the current render closes over: those of its
\* useCallback dependencies that change (currentIndex, isCompleted, isActive).
Closure ==
    [index |-> currentIndex, active |-> isActive, completed |-> isCompleted]

registerHandler_Once(registered, fresh) == registered

\* useEffect(() => keyPress.setOnKeyPress(handleKeyPress), [handleKeyPress,
\* keyPress]): the handler of the latest render replaces the registered one.
registerHandler(registered, fresh) == fresh

\* An id no catalog entry has.
UnknownLayoutIds == {"dvorak"}

TypeOK ==
    /\ layoutId \in LayoutIds
    /\ memoLayoutId \in LayoutIds
    /\ targetText \in Targets
    /\ mode \in Modes
    /\ duration \in Durations
    /\ currentIndex \in Nat
    /\ typedText \in Seq(Nat)
    /\ errors \in Seq(Nat)
    /\ isActive \in BOOLEAN
    /\ timerRunning \in BOOLEAN
    /\ timerElapsed \in 0..MaxElapsed
    /\ timerFired \in BOOLEAN
    /\ session \in 0..MaxResets
    /\ handler \in [index : Nat, active : BOOLEAN, completed : BOOLEAN]

Init ==
    /\ layoutId \in LayoutIds
    /\ memoLayoutId = layoutId
    /\ targetText \in Targets
    /\ mode \in Modes
    /\ duration \in Durations
    /\ currentIndex = 0
    /\ typedText = << >>
    /\ errors = << >>
    /\ isActive = FALSE
    /\ timerRunning = FALSE
    /\ timerElapsed = 0
    /\ timerFired = FALSE
    /\ timeouts = << >>
    /\ emitted = << >>
    /\ session = 0
    /\ handler = Closure

\* One onComplete call: the snapshot handed over, how finish was reached,
\* the session that scheduled it and the session it arrives in.
Emission(stats, via, scheduledIn) ==
    [stats |-> stats, via |-> via, scheduledIn |-> scheduledIn, at |-> session]

\* handleKeyPress(key, modifiers) as registered, then the render and the
\* re-registration the keydown causes.  currentIndex, isCompleted and isActive
\* are the values the registered handler closes over; the updater functions
\* of setTypedText and setErrors see the current state.
HandleKeyPress(key, modifiers) ==
    LET char     == getCharacterForKey(key, modifiers)
        expected == expectedAt(handler.index)
        correct  == compareHindiChars(char, expected)
        next     == nextIndex(handler.index, char)
    IN
    IF ~isTypeableKey(key) \/ handler.completed
    THEN UNCHANGED vars
    ELSE
      /\ IF ~handler.active
         THEN isActive' = TRUE /\ timerRunning' = TRUE
         ELSE UNCHANGED <<isActive, timerRunning>>
      /\ IF char = << >>
         THEN UNCHANGED <<typedText, errors, currentIndex, timeouts>>
         ELSE /\ typedText' = typedText \o char
              /\ errors' = recordError(errors, handler.index, correct)
              /\ currentIndex' = next
              /\ timeouts' =
                    IF next >= Len(normalizedTarget)
                    THEN Append(timeouts, [stats |-> currentStats,
                                           scheduledIn |-> session])
                    ELSE timeouts
      /\ UNCHANGED <<layoutId, targetText, mode, duration, timerElapsed,
                     timerFired, emitted, session, memoLayoutId>>
      /\ handler' = registerHandler(handler, Closure')

KeyPress == \E key \in InputKeys, pressedKeys \in PressedKeySets :
                HandleKeyPress(key, getModifierState(pressedKeys))

\* finish() of the render that scheduled the timeout: setIsActive(false),
\* timer.pause(), onComplete?.(currentStats).
Finish ==
    /\ timeouts # << >>
    /\ isActive' = FALSE
    /\ timerRunning' = FALSE
    /\ emitted' = Append(emitted,
                    Emission(Head(timeouts).stats, "keystroke",
                             Head(timeouts).scheduledIn))
    /\ timeouts' = Tail(timeouts)
    /\ UNCHANGED <<layoutId, targetText, mode, duration, currentIndex,
                   typedText, errors, timerElapsed, timerFired, session,
                   memoLayoutId>>

\* The setTimeout(finish, 50) callback, its render and the re-registration.
FinishTimeout ==
    /\ Finish
    /\ handler' = registerHandler(handler, Closure')

\* useTimer: one tick of a running timer that does not reach the duration.
Tick ==
    /\ timerRunning
    /\ timerElapsed < MaxElapsed
    /\ ~(timerDuration # 0 /\ ~timerFired /\ timerElapsed + 1 >= timerDuration)
    /\ timerElapsed' = timerElapsed + 1
    /\ UNCHANGED <<layoutId, targetText, mode, duration, currentIndex,
                   typedText, errors, isActive, timerRunning, timerFired,
                   timeouts, emitted, session, memoLayoutId>>

TimerTick ==
    /\ Tick
    /\ handler' = registerHandler(handler, Closure')

\* useTimer: the tick that reaches the duration; onComplete: () => finish().
Expire ==
    /\ timerRunning
    /\ timerElapsed < MaxElapsed
    /\ timerDuration # 0 /\ ~timerFired /\ timerElapsed + 1 >= timerDuration
    /\ timerElapsed' = timerElapsed + 1
    /\ timerFired' = TRUE
    /\ isActive' = FALSE
    /\ timerRunning' = FALSE
    /\ emitted' = Append(emitted, Emission(currentStats, "expiry", session))
    /\ UNCHANGED <<layoutId, targetText, mode, duration, currentIndex,
                   typedText, errors, timeouts, session, memoLayoutId>>

TimerExpire ==
    /\ Expire
    /\ handler' = registerHandler(handler, Closure')

Reset_KeepsErrors ==
    /\ session < MaxResets
    /\ currentIndex' = 0
    /\ typedText' = << >>
    /\ errors' = errors
    /\ isActive' = FALSE
    /\ timerRunning' = FALSE
    /\ timerElapsed' = 0
    /\ timerFired' = FALSE
    /\ session' = session + 1
    /\ emitted' = << >>
    /\ UNCHANGED <<layoutId, targetText, mode, duration, timeouts,
                   memoLayoutId>>
    /\ handler' = registerHandler(handler, Closure')

\* reset(), called from the "Try Again" click.
Reset ==
    /\ session < MaxResets
    /\ currentIndex' = 0
    /\ typedText' = << >>
    /\ errors' = << >>
    /\ isActive' = FALSE
    /\ timerRunning' = FALSE
    /\ timerElapsed' = 0
    /\ timerFired' = FALSE
    /\ session' = session + 1
    /\ emitted' = << >>
    /\ UNCHANGED <<layoutId, targetText, mode, duration, timeouts,
                   memoLayoutId>>
    /\ handler' = registerHandler(handler, Closure')

SetLayoutTo_RestartsSession(id) ==
    /\ layoutId' = id
    /\ memoLayoutId' = IF id \in LayoutIds THEN useMemo(memoLayoutId, id)
                       ELSE memoLayoutId
    /\ currentIndex' = 0
    /\ UNCHANGED <<targetText, mode, duration, typedText, errors,
                   isActive, timerRunning, timerElapsed, timerFired,
                   timeouts, emitted, session>>
    /\ handler' = IF id \in LayoutIds THEN registerHandler(handler, Closure')
                  ELSE handler

\* setLayout(id) = setLayoutId(id), then the provider's render:
\* AVAILABLE_LAYOUTS[id] and the useMemo of keyMap.  For an id outside the
\* catalog currentLayout is undefined and the render throws at
\* currentLayout.rows: nothing below the provider is rendered again.
SetLayoutTo(id) ==
    /\ layoutId' = id
    /\ memoLayoutId' = IF id \in LayoutIds THEN useMemo(memoLayoutId, id)
                       ELSE memoLayoutId
    /\ UNCHANGED <<targetText, mode, duration, currentIndex, typedText,
                   errors, isActive, timerRunning, timerElapsed, timerFired,
                   timeouts, emitted, session>>
    /\ handler' = IF id \in LayoutIds THEN registerHandler(handler, Closure')
                  ELSE handler

\* setLayout(id) from the LayoutSelector buttons: one per catalog entry.
SetLayout == \E id \in LayoutIds : SetLayoutTo(id)

Next ==
    \/ KeyPress
    \/ FinishTimeout
    \/ TimerTick
    \/ TimerExpire
    \/ Reset
    \/ SetLayout

Spec == Init /\ [][Next]_vars

\* ------------------------------------------------------------ RenderSpec
\* Updates from a timer or a timeout are rendered outside a discrete event:
\* their effects, the re-registration among them, run later.
FinishTimeoutDeferred == Finish /\ UNCHANGED handler

TimerTickDeferred == Tick /\ UNCHANGED handler

TimerExpireDeferred == Expire /\ UNCHANGED handler

\* The pending effect runs.
RegisterHandler ==
    /\ handler # Closure
    /\ handler' = registerHandler(handler, Closure)
    /\ UNCHANGED <<layoutId, targetText, mode, duration, currentIndex,
                   typedText, errors, isActive, timerRunning, timerElapsed,
                   timerFired, timeouts, emitted, session, memoLayoutId>>

RenderNext ==
    \/ KeyPress
    \/ FinishTimeoutDeferred
    \/ TimerTickDeferred
    \/ TimerExpireDeferred
    \/ RegisterHandler
    \/ Reset
    \/ SetLayout

RenderSpec == Init /\ [][RenderNext]_vars

\* ---------------------------------------------------------- RegistrySpec
\* setLayout is handed to every consumer of the context; nothing at run time
\* restricts its argument to the catalog.
SetUnknownLayout == \E id \in UnknownLayoutIds : SetLayoutTo(id)

\* The tree below the provider is mounted.
Mounted == layoutId \in LayoutIds

RegistryNext ==
    \/ Mounted /\ Next
    \/ Mounted /\ SetUnknownLayout

RegistrySpec == Init /\ [][RegistryNext]_vars

\* ---------------------------------------------- StorageSpec: persisted id
\* localStorage.getItem(STORAGE_KEY): no item (null), a getItem that throws,
\* or a stored string -- a catalog id, the empty string, a name no object
\* has, names every object inherits from Object.prototype.
NoItem == "(null)"
Unreadable == "(throws)"
PersistedValues ==
    {NoItem, Unreadable, ""} \cup LayoutIds
        \cup {"dvorak", "toString", "constructor"}

\* Property names an object literal inherits.
ObjectPrototypeKeys ==
    {"constructor", "toString", "valueOf", "hasOwnProperty", "__proto__"}

\* defaultLayout = 'remington-gail'
defaultLayout == "remington-gail"

\* name in AVAILABLE_LAYOUTS: own keys and the prototype chain.
hasKey(name) == name \in DOMAIN AVAILABLE_LAYOUTS \cup ObjectPrototypeKeys

\* The useState initializer of layoutId.
initialLayoutId(saved) ==
    IF saved = Unreadable THEN defaultLayout
    ELSE IF saved # NoItem /\ saved # "" /\ hasKey(saved) THEN saved
    ELSE defaultLayout

\* The state after the initializer ran on some persisted value.
StorageInit ==
    /\ \E saved \in PersistedValues : layoutId = initialLayoutId(saved)
    /\ memoLayoutId = layoutId
    /\ targetText \in Targets
    /\ mode \in Modes
    /\ duration \in Durations
    /\ currentIndex = 0
    /\ typedText = << >>
    /\ errors = << >>
    /\ isActive = FALSE
    /\ timerRunning = FALSE
    /\ timerElapsed = 0
    /\ timerFired = FALSE
    /\ timeouts = << >>
    /\ emitted = << >>
    /\ session = 0
    /\ handler = Closure

\* The first render reads currentLayout.rows: below a provider whose layout
\* id names no catalog entry nothing is mounted and no event is handled.
StorageNext == Mounted /\ Next

StorageSpec == StorageInit /\ [][StorageNext]_vars

\* ------------------------------------------------------------------ claims
\* A step of the current session: anything but reset().
SameSession == session' = session

\* C1: once a configured time budget has elapsed before the target is
\* consumed, no later step other than reset() changes position,
\* typedCharacters or errorPositions, and none restarts the timer.
C1_ExpiryCompletesSession ==
    [][(timerFired /\ ~isCompleted /\ SameSession) =>
          /\ currentIndex' = currentIndex
          /\ typedText' = typedText
          /\ errors' = errors
          /\ (timerRunning' => timerRunning)]_vars

\* C2: in a session whose position has reached the target length the
\* completion callback is never called a second time before reset().
C2_EmittedAtMostOnce ==
    (isCompleted /\ Len(normalizedTarget) > 0) => Len(emitted) <= 1

\* C3: the snapshot the deferred finish of this session hands to the
\* completion callback counts the final accepted keystroke: its typed and
\* error counts are those of the session state after that keystroke.
C3_SnapshotIncludesFinalKeystroke ==
    \A i \in DOMAIN emitted :
        (emitted[i].via = "keystroke" /\ emitted[i].scheduledIn = session) =>
            /\ emitted[i].stats.totalCharacters = Len(typedText)
            /\ emitted[i].stats.errors = Len(errors)

\* C4: position equals the length of typedCharacters in every reachable
\* state, conjunct keys included.
C4_PositionIsTypedLength == currentIndex = Len(typedText)

\* C5: every element of errorPositions is an integer p with
\* 0 <= p < position.
C5_ErrorsBelowPosition ==
    \A i \in DOMAIN errors : errors[i] \in 0..(currentIndex - 1)

C5_Witness == Len(errors) = 2 /\ currentIndex = 2

\* C6: every accepted keystroke (typeable key, session not completed,
\* non-empty resolved character) increments position by exactly one; on a
\* mismatch the pre-increment position is appended to errorPositions, on a
\* match errorPositions is unchanged.
C6_AcceptedKeystrokeAdvances ==
    \A key \in InputKeys, modifiers \in ModifierStates :
        (/\ isTypeableKey(key)
         /\ ~isCompleted
         /\ getCharacterForKey(key, modifiers) # << >>) =>
            ENABLED (/\ HandleKeyPress(key, modifiers)
                     /\ currentIndex' = currentIndex + 1
                     /\ errors' =
                          IF compareHindiChars(
                                getCharacterForKey(key, modifiers),
                                <<normalizedTarget[currentIndex + 1]>>)
                          THEN errors
                          ELSE errors \o <<currentIndex>>)

\* A mismatch at position 0 followed by a match at position 1.
C6_Witness == errors = <<0>> /\ currentIndex = 2 /\ typedText[Len(typedText)] = 32

\* C7: once position equals the target length no step other than reset()
\* changes position, typedCharacters or errorPositions, and position never
\* exceeds the target length.
C7_CompletedIsFrozen ==
    /\ [](currentIndex <= Len(normalizedTarget))
    /\ [][(currentIndex = Len(normalizedTarget) /\ SameSession) =>
            /\ currentIndex' = currentIndex
            /\ typedText' = typedText
            /\ errors' = errors]_vars

\* The target of length 2 is consumed and its deferred finish has run.
C7_Witness ==
    /\ Len(normalizedTarget) = 2
    /\ currentIndex = 2
    /\ timeouts = << >>
    /\ emitted # << >>

\* C8: the completion transition (finish) of a session has run only if
\* position equals the target length, and it runs at most once per session.
C8_CompletedIffTargetConsumed ==
    LET own == {i \in DOMAIN emitted : emitted[i].scheduledIn = session}
    IN /\ own # {} => currentIndex = Len(normalizedTarget)
       /\ Cardinality(own) <= 1

\* C9: as long as no keystroke has been accepted in the session it is Idle
\* and the timer is not running.
C9_IdleUntilFirstAcceptedKeystroke ==
    typedText = << >> => (~isActive /\ ~timerRunning)

\* C10: a keystroke on a typeable key whose resolved character is empty
\* leaves position, typedCharacters, errorPositions, the lifecycle state and
\* the timer unchanged.
C10_EmptyCharacterIsNoOp ==
    [][\A key \in InputKeys, modifiers \in ModifierStates :
        (/\ HandleKeyPress(key, modifiers)
         /\ isTypeableKey(key)
         /\ getCharacterForKey(key, modifiers) = << >>) =>
            UNCHANGED <<currentIndex, typedText, errors, isActive,
                        timerRunning, timerElapsed>>]_vars

\* C11: reset() is enabled in every state, and after it position is 0,
\* typedCharacters and errorPositions are empty, the session is Idle and the
\* timer is stopped.
C11_ResetRestoresInitialState ==
    /\ [](session < MaxResets => ENABLED Reset)
    /\ [][session' # session =>
            /\ currentIndex' = 0
            /\ typedText' = << >>
            /\ errors' = << >>
            /\ ~isActive'
            /\ ~timerRunning'
            /\ timerElapsed' = 0]_vars

\* reset() was called on a completed session whose deferred finish is still
\* pending.
C11_Witness ==
    session = 1 /\ currentIndex = 0 /\ errors = << >> /\ timeouts # << >>

\* C12: no step other than reset() lowers position: keystrokes, layout
\* selections and timer events leave it or raise it.
C12_PositionNeverDecreases ==
    [][SameSession => currentIndex' >= currentIndex]_vars

\* Mid-session, after timer ticks and a change of layout.
C12_Witness ==
    currentIndex = 1 /\ timerElapsed = 2 /\ layoutId = "inscript"
        /\ typedText = <<2309>>

\* C13: whatever handler registration interleaves, every accepted keystroke
\* is compared against the target at the current position and raises the
\* position by exactly one, and the registered handler never closes over
\* another position than the current one.
C13_KeystrokesInArrivalOrder ==
    /\ [](handler.index = currentIndex)
    /\ [][(typedText' # typedText /\ SameSession) =>
            LET char == SubSeq(typedText', Len(typedText) + 1, Len(typedText'))
            IN /\ currentIndex' = currentIndex + 1
               /\ errors' = IF compareHindiChars(char, expectedAt(currentIndex))
                            THEN errors
                            ELSE Append(errors, currentIndex)]_vars

\* A handler of an earlier render is still registered in mid-session.
C13_Witness ==
    handler # Closure /\ currentIndex = 1 /\ Len(normalizedTarget) = 2

\* The key codes of a declared modifier group.
GroupKeys(group) == {group[i] : i \in 1..Len(group)}

\* C14: for the current layout and every set of pressed keys, the modifier
\* state is altgr-shift if a key of the layout's declared shift group and a
\* key of its declared altgr group are pressed, altgr if only an altgr-group
\* key, shift if only a shift-group key, normal otherwise.
C14_ModifierStateFollowsDeclaredGroups ==
    \A pressedKeys \in PressedKeySets :
        LET shiftRole ==
                GroupKeys(currentLayout.modifiers.shift) \cap pressedKeys # {}
            altgrRole ==
                GroupKeys(currentLayout.modifiers.altgr) \cap pressedKeys # {}
        IN getModifierState(pressedKeys) =
               IF shiftRole /\ altgrRole THEN "altgr-shift"
               ELSE IF altgrRole THEN "altgr"
               ELSE IF shiftRole THEN "shift"
               ELSE "normal"

\* Key codes asked about: the keys the host delivers, the other control keys
\* and further modifier keys.
ProbedKeys ==
    InputKeys \cup {"ShiftRight", "Backspace", "Tab", "Escape", "MetaLeft"}

ControlKeys == {"Backspace", "Enter", "Tab", "Escape"}

\* C15 as stated: a key outside the current layout's declared shift and altgr
\* groups and outside the control keys is typeable iff the key index has an
\* entry for it; keys of those groups and control keys are not typeable.
C15_TypeableOutsideDeclaredGroups ==
    \A key \in ProbedKeys :
        IF key \in GroupKeys(currentLayout.modifiers.shift)
                      \cup GroupKeys(currentLayout.modifiers.altgr)
                      \cup ControlKeys
        THEN ~isTypeableKey(key)
        ELSE isTypeableKey(key) <=> key \in DOMAIN keyMap

\* C15 amended: a key that is none of the eight modifier keys ShiftLeft,
\* ShiftRight, AltRight, ControlLeft, ControlRight, AltLeft, MetaLeft,
\* MetaRight and none of the control keys is typeable iff the key index has
\* an entry for it; those modifier keys and the control keys are not
\* typeable, whatever groups the layout declares.
C15_TypeableOutsideFixedModifiers ==
    \A key \in ProbedKeys :
        IF key \in {"ShiftLeft", "ShiftRight", "AltRight", "ControlLeft",
                    "ControlRight", "AltLeft", "MetaLeft", "MetaRight"}
                      \cup ControlKeys
        THEN ~isTypeableKey(key)
        ELSE isTypeableKey(key) <=> key \in DOMAIN keyMap

\* With INSCRIPT active a mapped key has been accepted, while ControlLeft and
\* AltRight, which have entries and are in no declared group, and Enter are
\* refused.
C15_Witness ==
    /\ layoutId = "inscript" /\ typedText = <<2344>>
    /\ isTypeableKey("KeyV") /\ ~isTypeableKey("F1")
    /\ {"ControlLeft", "AltRight", "Enter"} \subseteq DOMAIN keyMap
    /\ ~isTypeableKey("ControlLeft") /\ ~isTypeableKey("AltRight")
    /\ ~isTypeableKey("Enter")

\* The slot of a mapping that a modifier state selects.
SlotOf(keyMapping, modifierState) ==
    IF modifierState = "normal" THEN keyMapping.normal
    ELSE IF modifierState = "shift" THEN keyMapping.shift
    ELSE IF modifierState = "altgr" THEN keyMapping.altgr
    ELSE keyMapping.altgrShift

\* C16: getCharacterForKey(key, modifierState) is the slot selected by the
\* modifier state of the mapping the current layout's rows hold for the key,
\* and the empty string when no row holds the key or the slot is empty.
C16_CharacterIsSelectedSlot ==
    \A key \in ProbedKeys, modifierState \in ModifierStates :
        LET flat    == Flat(currentLayout.rows)
            entries == {i \in 1..Len(flat) : flat[i].key = key}
        IN IF entries = {}
           THEN getCharacterForKey(key, modifierState) = << >>
           ELSE \A i \in entries :
                    getCharacterForKey(key, modifierState) =
                        SlotOf(flat[i], modifierState)

\* A character of the altgr slot and one of the altgr-shift slot have been
\* typed, an unmapped key and an empty slot resolve to the empty string.
C16_Witness ==
    /\ layoutId = "remington-gail" /\ typedText = <<8204, 8205>>
    /\ getCharacterForKey("F1", "normal") = << >>
    /\ getCharacterForKey("CapsLock", "shift") = << >>
    /\ getCharacterForKey("KeyV", "shift") = <<2335>>

\* Characters looked up: the space, characters of one layout or the other,
\* a character no layout produces, and the next character of the target.
ProbedCharacters ==
    {<<32>>, <<2309>>, <<2335>>, <<2344>>, <<2342, 2381, 2351>>, <<9999>>}
        \cup ({nextChar} \ {<< >>})

\* Row and column of a key in the current layout's declared rows.
RowColOf(key) ==
    CHOOSE rc \in {<<r, c>> : r \in 1..Len(currentLayout.rows), c \in 1..3} :
        /\ rc[2] <= Len(currentLayout.rows[rc[1]])
        /\ currentLayout.rows[rc[1]][rc[2]].key = key

C18_SpaceInEveryModifierState ==
    /\ isTypeableKey("Space")
    /\ \A pressedKeys \in PressedKeySets :
           getCharacterForKey("Space", getModifierState(pressedKeys)) = <<32>>

\* C19: setLayout(id) with an id outside the catalog changes nothing -- the
\* layout id and the key index stay as they were -- and no read faults
\* afterwards: the current layout id always names a catalog entry.
C19_UnknownLayoutIsNoOp ==
    /\ [][SetUnknownLayout => UNCHANGED <<layoutId, memoLayoutId>>]_vars
    /\ [](layoutId \in DOMAIN AVAILABLE_LAYOUTS)

\* For each catalog entry, its rows flattened: each key id with its mapping.
FlattenedIndexOf ==
    [id \in LayoutIds |->
        LET flat == Flat(AVAILABLE_LAYOUTS[id].rows)
        IN [key \in {flat[i].key : i \in 1..Len(flat)} |->
               CHOOSE keyMapping \in {flat[i] : i \in 1..Len(flat)} :
                   keyMapping.key = key]]

\* C20: in every state the current layout is the catalog entry of the
\* current layout id and the key index is the flattening of that layout's
\* rows, in content and in iteration order; right after setLayout(id) with a
\* catalog id both are those of id.
C20_LayoutAndIndexConsistent ==
    /\ currentLayout = AVAILABLE_LAYOUTS[layoutId]
    /\ keyMap = FlattenedIndexOf[layoutId]
    /\ keyMapValues = Flat(currentLayout.rows)
    /\ \A id \in LayoutIds :
           ENABLED (/\ SetLayoutTo(id)
                    /\ currentLayout' = AVAILABLE_LAYOUTS[id]
                    /\ keyMap' = FlattenedIndexOf[id])

\* The first character was typed with one layout and the second, after a
\* selection, with the other: KeyV gave U+0905, then U+0928.
C20_Witness ==
    layoutId = "inscript" /\ typedText = <<2309, 2344>>

\* C21: for every persisted value the initial selection is that value when
\* it is the id of a catalog layout and the default otherwise, and the
\* layout id the provider starts with names a catalog layout.
C21_InitialLayoutIsCatalogLayout ==
    /\ \A saved \in PersistedValues :
           initialLayoutId(saved) =
               IF saved \in LayoutIds THEN saved ELSE defaultLayout
    /\ layoutId \in LayoutIds

\* For each catalog entry, the non-empty characters its mappings hold.
CharactersOf ==
    [id \in LayoutIds |->
        LET flat == Flat(AVAILABLE_LAYOUTS[id].rows)
        IN {SlotOf(flat[i], m) : i \in 1..Len(flat), m \in ModifierStates}
               \ {<< >>}]

\* C22: a step that selects another layout leaves position, typedCharacters
\* and errorPositions as they are, and the character every accepted keystroke
\* appends is one the layout selected at that moment maps a key to.
C22_LayoutSwitchKeepsProgress ==
    /\ [][layoutId' # layoutId =>
            UNCHANGED <<currentIndex, typedText, errors>>]_vars
    /\ [][(typedText' # typedText /\ SameSession) =>
            SubSeq(typedText', Len(typedText) + 1, Len(typedText'))
                \in CharactersOf[layoutId]]_vars

\* U+0928 was typed with INSCRIPT's KeyV, then, after the selection of
\* Remington, U+0905 with the same key; the first error is still recorded.
C22_Witness ==
    /\ layoutId = "remington-gail"
    /\ typedText = <<2344, 2309>>
    /\ errors = <<0, 1>>

\* C23: the accuracy of the statistics is 100 whenever at least one
\* character has been typed and errorPositions is empty, and it lies between
\* 0 and 100 in every state, in the current statistics, in the snapshots
\* held by pending finishes and in those handed to the completion callback.
C23_AccuracyWithinRange ==
    /\ (typedText # << >> /\ errors = << >>) => currentStats.accuracy = 100
    /\ currentStats.accuracy \in 0..100
    /\ \A i \in DOMAIN timeouts : timeouts[i].stats.accuracy \in 0..100
    /\ \A i \in DOMAIN emitted : emitted[i].stats.accuracy \in 0..100

\* A session of two matching keystrokes has accuracy 100 and has handed a
\* snapshot to the completion callback.
C23_Witness ==
    /\ typedText = <<2309, 32>> /\ errors = << >>
    /\ currentStats.accuracy = 100
    /\ emitted # << >>

\* C24: under remington-gail with target U+0906, in a fresh session, KeyE
\* with Shift resolves to U+0906 and the keystroke leaves position 1,
\* typedCharacters U+0906 and errorPositions empty.
C24_ShiftKeyETypesAA ==
    (/\ layoutId = "remington-gail"
     /\ targetText = <<2310>>
     /\ currentIndex = 0) =>
        /\ getCharacterForKey("KeyE", getModifierState({"ShiftLeft"})) = <<2310>>
        /\ ENABLED (/\ HandleKeyPress("KeyE", getModifierState({"ShiftLeft"}))
                    /\ currentIndex' = 1
                    /\ typedText' = <<2310>>
                    /\ errors' = << >>)

\* C25: under remington-gail with target U+0905, in an idle session, KeyV
\* with no modifier resolves to U+0905 and the keystroke leaves position 1,
\* errorPositions empty and the target consumed.
C25_KeyVTypesA ==
    (/\ layoutId = "remington-gail"
     /\ targetText = <<2309>>
     /\ currentIndex = 0
     /\ ~isActive) =>
        /\ getCharacterForKey("KeyV", getModifierState({})) = <<2309>>
        /\ ENABLED (/\ HandleKeyPress("KeyV", getModifierState({}))
                    /\ currentIndex' = 1
                    /\ typedText' = <<2309>>
                    /\ errors' = << >>
                    /\ isCompleted')

\* The keystroke has been made: the one-character target is consumed
\* without an error.
C25_Witness ==
    /\ layoutId = "remington-gail" /\ targetText = <<2309>>
    /\ typedText = <<2309>> /\ currentIndex = 1 /\ errors = << >>
    /\ isCompleted /\ session = 0

\* C26: in every state where position equals the target length the timer is
\* not running and the session is not Active.
C26_ConsumedTargetStopsTimer ==
    currentIndex = Len(normalizedTarget) => (~timerRunning /\ ~isActive)

\* C27: in one session the completion callback is called at most once,
\* counting the calls made by the time-budget expiry and those made by the
\* finish a keystroke of this session scheduled.
C27_OneCompletionPerSession ==
    Cardinality({i \in DOMAIN emitted :
                    \/ emitted[i].via = "expiry"
                    \/ emitted[i].scheduledIn = session}) <= 1

\* C28: after reset(), as long as no keystroke has been accepted, no
\* completion callback has been called (the first part of the claim; that
\* such a session is Idle with the timer stopped is what C9 states).
C28_NoCompletionAfterReset ==
    (session >= 1 /\ typedText = << >>) => emitted = << >>

\* C29: at every position below the target length the character the
\* on-screen guidance looks up is the character the engine compares the next
\* keystroke with.
C29_GuidanceMatchesExpected ==
    currentIndex < Len(normalizedTarget) => nextChar = expectedAt(currentIndex)

\* C30: the counters given to the statistics function are: total = number
\* of accepted keystrokes (position), errors = size of errorPositions,
\* correct = number of accepted keystrokes that matched.
C30_CountersCountKeystrokes ==
    /\ currentStats.totalCharacters = currentIndex
    /\ currentStats.errors = Len(errors)
    /\ currentStats.correctCharacters = currentIndex - Len(errors)

====
